---- MODULE Spec2Model ----
(***************************************************************************)
(* Energy-constrained velocity-profile optimiser of a solar race car      *)
(* (src/optim).  The program computes with float64; the model computes    *)
(* with scaled integers.  The units are:                                   *)
(*     waypoint speed            0.01 m/s   (the lower bound of get_bounds)*)
(*     average (segment) speed   0.005 m/s  (the sum of two waypoint      *)
(*                                           speeds, so that /2 is exact) *)
(*     segment length            1 m                                      *)
(*     time                      1 ms, plus a count of 10^11 ms units for *)
(*                               a division by EPSILON alone              *)
(*     acceleration              10^-6 m/s^2                              *)
(*     torque                    10^-4 N m                                *)
(*     temperature               10^-4 K    (the tolerance 0.001 K is 10) *)
(*     power                     1 mW                                     *)
(*     energy                    1 mWh                                    *)
(*     battery percentage        10^-3 %                                  *)
(* Every product followed by a division is computed exactly (MulDiv), and *)
(* the quotient is cut to an integer once per source operation.           *)
(***************************************************************************)
EXTENDS Integers, Sequences, FiniteSets, TLC

(***************************************************************************)
(* Arithmetic                                                              *)
(***************************************************************************)

\* The largest magnitude the scaled arithmetic carries.  A float64 result
\* beyond it stands for a run-away value (see TwNext).
SAT == 10^9

Abs(x) == IF x < 0 THEN -x ELSE x

Sgn(x) == IF x < 0 THEN -1 ELSE 1

MinOf(a, b) == IF a <= b THEN a ELSE b

MaxOf(a, b) == IF a >= b THEN a ELSE b

SatAdd(a, b) == IF a >= SAT - b THEN SAT ELSE a + b

\* One doubling step of MulDivQR: h = <<q, r>> for b \div 2, ac = <<a \div c, a % c>>.
MulDivStep(h, ac, odd, c) ==
    LET qd == IF h[1] > SAT \div 2 THEN SAT ELSE MinOf(2 * h[1] + ((2 * h[2]) \div c), SAT)
        rd == (2 * h[2]) % c
    IN  IF odd THEN <<MinOf(qd + ac[1] + ((rd + ac[2]) \div c), SAT), (rd + ac[2]) % c>>
        ELSE <<qd, rd>>

\* MulDivQR(<<a \div c, a % c>>, b, c) is <<q, r>> with a * b = q * c + r and
\* 0 <= r < c, for 0 <= a, b <= SAT and 0 < c <= 2^30, computed by doubling
\* without leaving 32 bits; q saturates at SAT.  (The CHOOSE from a singleton
\* only makes the evaluation of each step strict.)
RECURSIVE MulDivQR(_, _, _)
MulDivQR(ac, b, c) ==
    IF b = 0 THEN <<0, 0>>
    ELSE CHOOSE r \in {MulDivStep(h, ac, b % 2 = 1, c) :
                            h \in {MulDivQR(ac, b2, c) : b2 \in {b \div 2}}} : TRUE

\* floor(a * b / c), saturating.
MulDiv(a, b, c) ==
    CHOOSE q \in {MulDivQR(<<x \div z, x % z>>, y, z)[1] :
                      x \in {a}, y \in {b}, z \in {c}} : TRUE

\* a * b / c for a signed a, cut towards zero.
SMulDiv(a, b, c) == Sgn(a) * MulDiv(Abs(a), b, c)

\* a / c for a signed a, cut towards zero.
SDiv(a, c) == Sgn(a) * (Abs(a) \div c)

(***************************************************************************)
(* Configuration: src/optim/config.py, src/optim/state.py                  *)
(***************************************************************************)

BatteryCapacity == 3055             \* Wh
DeepDischargeCap == 2               \* tenths: 0.2
R_Out == 2785                       \* 10^-4 m
Mass == 290                         \* kg
ZeroSpeedCrr == 45                  \* 10^-4
CDA == 12                           \* 10^-2 (the second assignment, 0.12)
PanelArea == 49                     \* 10^-1 m^2
PanelEfficiency == 21               \* 10^-2
BusVoltage == 42 * 38               \* 10^-1 V
AirDensity == 1192                  \* 10^-3 kg/m^3
GravityAcc == 981                   \* 10^-2 m/s^2
Ta == 295 * 10^4                    \* 10^-4 K
MaxVelocity == 35 * 100             \* 0.01 m/s
MaxCurrent == 123                   \* 10^-1 A
InitialGuessVelocity == 32 * 100    \* 0.01 m/s (the second assignment)
StartTime == 9 * 3600               \* s
InitialBatteryCapacity == BatteryCapacity * 1000 * 1   \* mWh

(***************************************************************************)
(* float64 values that are no numbers.  Only a winding temperature takes   *)
(* them: all other quantities of the model stay finite.                    *)
(***************************************************************************)
Inf == -1
NaN == -2
IsFinite(x) == x >= 0

(***************************************************************************)
(* PowerModel: src/optim/car.py                                            *)
(***************************************************************************)

\* np.cos and np.sin of a slope, 10^-6, for the slopes of the model's routes
\* (10^-4 rad).
Slopes == {0, 500, -500}
Cos(slope) == IF slope = 0 THEN 1000000 ELSE 998750
Sin(slope) == IF slope = 0 THEN 0 ELSE IF slope > 0 THEN 49979 ELSE -49979

\* 10^-6 N m
_frictional_tou == MulDiv(R_Out * Mass, GravityAcc * ZeroSpeedCrr, 10^4)
\* 10^-9: 0.5 * CDA * AirDensity * R_Out^3 / R_Out^2
_drag_coeff_wR2 == (CDA * AirDensity * R_Out) \div 2
\* 10^-2 N
_slope_coeff == Mass * GravityAcc

\* speed ** 2 of a segment speed h (0.005 m/s), in 2.5 * 10^-5 m^2/s^2.
Speed2(h) == h * h

\* tou, 10^-4 N m: rolling resistance plus speed^2 drag (no wind term).
Tou(h, slope) ==
    MulDiv(_frictional_tou, Cos(slope), 10^8)
        + MulDiv(Speed2(h), _drag_coeff_wR2 \div 10, 4 * 10^8)

\* B, 10^-6: 1.6716 - 0.0006 * (Ta + Tw_i)
Remanence(Tw_i) == 1671600 - MulDiv(Ta + Tw_i, 6, 100)

\* |i|, 10^-4 A: 0.561 * B * tou
PhaseCurrent(Tw_i, tou) ==
    MulDiv(MulDiv(Abs(Remanence(Tw_i)), tou, 10^6), 561, 1000)

\* resistance, 10^-7 Ohm: 0.00022425 * Tw_i - 0.00820525
Resistance(Tw_i) == MulDiv(Tw_i, 22425, 10^5) - 82052

\* Pc, mW: 3 * i ** 2 * resistance
CopperLoss(Tw_i, tou) ==
    LET i   == PhaseCurrent(Tw_i, tou)
        isq == MulDiv(i, i, 10^5)                        \* 10^-3 A^2
        i3  == IF isq > SAT \div 3 THEN SAT ELSE 3 * isq
    IN  MulDiv(i3, Resistance(Tw_i), 10^7)

\* Pe, mW: 9.602e-6 * (B / R_Out) ** 2 / resistance * speed2
EddyLoss(Tw_i, h) ==
    LET b   == Abs(Remanence(Tw_i))
        bsq == MulDiv(b, b, 10^7)                        \* 10^-5
        y   == MulDiv(bsq, 10^5, Resistance(Tw_i))       \* 10^-3
        z   == MulDiv(y, Speed2(h), 40000)               \* 10^-3
    IN  MulDiv(z, 9602, 10 * R_Out * R_Out)

\* Tw of one segment: 0.455 * (Pc + Pe) + Ta.  A float64 temperature of
\* 10^5 K or more runs away: the copper loss grows with its cube and exceeds
\* twice the temperature for every torque of the model, so the iterates reach
\* inf; inf makes Pe an inf / inf, which is nan; nan stays nan.
TwNext(Tw_i, h, slope) ==
    IF ~IsFinite(Tw_i) THEN NaN
    ELSE LET tou == Tou(h, slope)
             raw == SatAdd(MulDiv(SatAdd(CopperLoss(Tw_i, tou), EddyLoss(Tw_i, h)),
                                  455, 100), Ta)
         IN  IF raw >= SAT THEN Inf ELSE raw

\* np.abs(Tw - Tw_i) < 0.001; a comparison with inf - inf or nan is False.
Cond(Tw, Tw_i) == IsFinite(Tw) /\ IsFinite(Tw_i) /\ Abs(Tw - Tw_i) < 10

\* An update without the mask: Tw whatever cond is.
WhereUnmasked(Tw, Tw_i) == Tw

\* np.where(cond, Tw_i, Tw) on one element.
Where(Tw, Tw_i) == IF Cond(Tw, Tw_i) THEN Tw_i ELSE Tw

\* P_out, mW: tou * speed / R_Out
OutputPower(h, slope) == MulDiv(Tou(h, slope), 5 * h, R_Out)

\* Pw, mW: speed2 * (170.4e-6 / R_Out ** 2)
WindageLoss(h) == MulDiv(Speed2(h), 1704, 4 * R_Out * R_Out)

\* P_acc, mW: (Mass * acceleration + _slope_coeff * sin(slope)) * speed, with
\* the force in mN.
AccPower(h, acc, slope) ==
    SMulDiv(SDiv(Mass * acc, 1000) + SMulDiv(Sin(slope), _slope_coeff, 10^5), h, 200)

\* P_out + (Pw + Pc + Pe + P_acc) of one segment whose temperature is Tw_i.
NetSum(Tw_i, h, acc, slope) ==
    OutputPower(h, slope)
        + (WindageLoss(h) + CopperLoss(Tw_i, Tou(h, slope)) + EddyLoss(Tw_i, h)
           + AccPower(h, acc, slope))

\* P_net.clip(0) on one element.
Clip0(p) == IF p < 0 THEN 0 ELSE p

\* The sum of line 53 returned as it is, without the clip of line 54.
NetPowerUnclipped(Tw_i, h, acc, slope) == NetSum(Tw_i, h, acc, slope)

\* P_net of one segment, as calculate_power returns it.
NetPower(Tw_i, h, acc, slope) == Clip0(NetSum(Tw_i, h, acc, slope))

(***************************************************************************)
(* Times.  A time is dx / (s + EPSILON) for a speed s that may be 0, so it *)
(* ranges over 10^11 s; it is kept exactly, to the millisecond, as         *)
(* hi * 10^9 ms + lo ms with 0 <= lo < 10^9.                               *)
(***************************************************************************)

WBase == 10^9

WNorm(hi, lo) == [hi |-> hi + (lo \div WBase), lo |-> lo % WBase]

WZero == [hi |-> 0, lo |-> 0]

WAdd(a, b) == WNorm(a.hi + b.hi, a.lo + b.lo)

WLess(a, b) == a.hi < b.hi \/ (a.hi = b.hi /\ a.lo < b.lo)

\* EPSILON = 10**-8 m/s, as the number of 10^-8 m/s in 0.01 m/s.
EpsPerUnit == 10^6

\* floor of the time dx * 200000 / (h + k / EpsPerUnit) ms for h >= 1: the
\* quotient q0 by h alone, less the least d that pays for the k / EpsPerUnit.
DivEps(dx, h, k) ==
    LET qh  == (dx * 200) \div h
        rh  == (dx * 200) % h
        hi0 == qh \div 10^6
        lo0 == (qh % 10^6) * 1000 + ((rh * 1000) \div h)
        r0  == (rh * 1000) % h
        A   == hi0 * 1000 * k + ((lo0 * k) \div EpsPerUnit)
        rho == (lo0 * k) % EpsPerUnit
        g   == A - r0
        d0  == (g + h - 1) \div h
        d   == IF g < 0 \/ (g = 0 /\ rho = 0) THEN 0
               ELSE IF d0 * h > g \/ d0 * k >= rho THEN d0 ELSE d0 + 1
    IN  WNorm(hi0 - 1, lo0 + WBase - d)

\* dx / (s + EPSILON) in ms, where s is h in units of 0.01 / k m/s:
\* k = 1 for a sum of two waypoint speeds, k = 2 for their average.
TimeOver(dx, h, k) ==
    IF h = 0 THEN [hi |-> (dx * 200) \div k, lo |-> 0]
    ELSE DivEps(dx, h, k)

(***************************************************************************)
(* EnvironmentProvider: src/optim/weather.py.  The series are the columns  *)
(* of a table read at import; a series is a function on 0 .. SeriesLen - 1.*)
(***************************************************************************)

\* Rows of the table: five-minute samples from 08:00 on.
SeriesLen == 40

STEP == 5
\* 10^-3
NET_PANEL_FACTOR == PanelArea * PanelEfficiency
\* minutes
INIT_TIME == (StartTime \div 60) - 8 * 60

\* The irradiance columns of the model, W/m^2: a rising morning, and none.
GhiClear == [k \in 0 .. SeriesLen - 1 |-> 200 + 15 * k]
GhiDark == [k \in 0 .. SeriesLen - 1 |-> 0]
_wind_speed == [k \in 0 .. SeriesLen - 1 |-> (3 * k) % 7]
_wind_direction == [k \in 0 .. SeriesLen - 1 |-> k]

\* The index of the nearest sample, past or to come.
BucketIdxNearest(ms) == (ms + INIT_TIME * 60000 + (STEP * 60000) \div 2) \div (STEP * 60000)

\* np.floor_divide(input_minutes + INIT_TIME, STEP).astype(int), for elapsed
\* time in ms.
BucketIdx(ms) == (ms + INIT_TIME * 60000) \div (STEP * 60000)

\* series[idx] of a numpy array: a negative index counts from the end, an
\* index outside -len .. len - 1 raises IndexError.
NpIndex(series, idx) ==
    LET len == Cardinality(DOMAIN series)
    IN  IF 0 <= idx /\ idx < len THEN [ok |-> TRUE, val |-> series[idx]]
        ELSE IF -len <= idx /\ idx < 0 THEN [ok |-> TRUE, val |-> series[idx + len]]
        ELSE [ok |-> FALSE, val |-> 0]

\* get_solar_power of one time, mW.
get_solar_power(_ghi, ms) ==
    LET r == NpIndex(_ghi, BucketIdx(ms))
    IN  [ok |-> r.ok, val |-> r.val * NET_PANEL_FACTOR]

\* get_wind_data of one time.
get_wind_data(ms) ==
    LET s == NpIndex(_wind_speed, BucketIdx(ms))
        d == NpIndex(_wind_direction, BucketIdx(ms))
    IN  [ok |-> s.ok /\ d.ok, ws |-> s.val, wd |-> d.val]

(***************************************************************************)
(* ConstraintEvaluator: src/optim/constraints.py                           *)
(***************************************************************************)

\* mWh
SafeBatteryLevel == (BatteryCapacity * 1000 * DeepDischargeCap) \div 10
\* mW
MaxPower == MaxCurrent * BusVoltage * 10

Segs(v) == 1 .. Len(v) - 1

\* Bounds that leave the two ends as free as the interior.
get_bounds_free_ends(N) == [i \in 1 .. N |-> <<0, MaxVelocity>>]

\* [(0, 0)] + [(0.01, MaxVelocity)] * (N - 2) + [(0, 0)]
get_bounds(N) ==
    <<<<0, 0>>>> \o [i \in 1 .. N - 2 |-> <<1, MaxVelocity>>] \o <<<<0, 0>>>>

RECURSIVE WSum(_, _)
\* np.sum / the last entry of cumsum over the first n entries of a sequence of times.
WSum(t, n) == IF n = 0 THEN WZero ELSE WAdd(WSum(t, n - 1), t[n])

\* The sum without the last segment.
objective_short(velocity_profile, dx) ==
    WSum([k \in Segs(velocity_profile) |->
             TimeOver(dx[k], velocity_profile[k] + velocity_profile[k + 1], 1)],
         Len(velocity_profile) - 2)

\* np.sum(2 * dx / (velocity_profile[:-1] + velocity_profile[1:] + EPSILON))
objective(velocity_profile, dx) ==
    WSum([k \in Segs(velocity_profile) |->
             TimeOver(dx[k], velocity_profile[k] + velocity_profile[k + 1], 1)],
         Len(velocity_profile) - 1)

\* avg_speed, 0.005 m/s
AvgSpeed(v) == [k \in Segs(v) |-> v[k] + v[k + 1]]

\* dt = dx / (avg_speed + EPSILON)
Dt(v, dx) == [k \in Segs(v) |-> TimeOver(dx[k], v[k] + v[k + 1], 2)]

\* acceleration = (stop_speeds - start_speeds) / dt, 10^-6 m/s^2
Acceleration(v, dx) ==
    [k \in Segs(v) |->
        LET t == Dt(v, dx)[k]
        IN  IF t.hi > 0 THEN SDiv(v[k + 1] - v[k], 100 * t.hi)
            ELSE SMulDiv(v[k + 1] - v[k], 10^7, t.lo)]

\* dt.cumsum() in ms, as far as a lookup tells it from a later time: a time
\* of 10^9 ms or more is kept as 10^9 ms, beyond every series of the model.
CumMs(v, dx) ==
    [k \in Segs(v) |->
        LET t == WSum(Dt(v, dx), k) IN IF t.hi > 0 THEN WBase ELSE t.lo]

\* Whether the lookups of one evaluation stay inside the series (the lookup
\* of an array raises when any of its indices does).
LookupsOk(v, dx) == \A k \in Segs(v) : get_wind_data(CumMs(v, dx)[k]).ok

SolP(_ghi, v, dx) == [k \in Segs(v) |-> get_solar_power(_ghi, CumMs(v, dx)[k]).val]

RECURSIVE Sum(_, _)
Sum(f, n) == IF n = 0 THEN 0 ELSE Sum(f, n - 1) + f[n]

RECURSIVE MinSeq(_, _)
\* np.min over the first n entries
MinSeq(f, n) == IF n = 1 THEN f[1] ELSE MinOf(MinSeq(f, n - 1), f[n])

RECURSIVE MaxSeq(_, _)
\* np.max over the first n entries
MaxSeq(f, n) == IF n = 1 THEN f[1] ELSE MaxOf(MaxSeq(f, n - 1), f[n])

\* state.InitialBatteryCapacity, mWh: the attribute of the module state that
\* battery_acc_constraint_func and extract_profiles read at each call.
VARIABLE state_InitialBatteryCapacity

\* The battery profile without the safety reserve taken off.
BatteryProfileNoReserve(P, S, v, dx) ==
    LET e == [k \in Segs(v) |-> SMulDiv(P[k] - S[k], Dt(v, dx)[k].lo, 10^5)]
    IN  [k \in Segs(v) |-> state_InitialBatteryCapacity - SDiv(Sum(e, k), 36)]

\* The battery profile with the net energy added instead of taken off.
BatteryProfileGain(P, S, v, dx) ==
    LET e == [k \in Segs(v) |-> SMulDiv(P[k] - S[k], Dt(v, dx)[k].lo, 10^5)]
    IN  [k \in Segs(v) |->
            state_InitialBatteryCapacity + SDiv(Sum(e, k), 36) - SafeBatteryLevel]

\* battery_profile, mWh, from the net power P and the solar power S:
\* InitialBatteryCapacity - ((P - SolP) * dt).cumsum() / 3600 - SafeBatteryLevel
\* (the products in 0.1 J; 0.1 J / 3600 is 1 / 36 mWh).
BatteryProfile(P, S, v, dx) ==
    LET e == [k \in Segs(v) |-> SMulDiv(P[k] - S[k], Dt(v, dx)[k].lo, 10^5)]
    IN  [k \in Segs(v) |->
            state_InitialBatteryCapacity - SDiv(Sum(e, k), 36) - SafeBatteryLevel]

\* The pair with the least net power in place of the largest.
MarginsLeastPower(P, S, v, dx) ==
    <<MinSeq(BatteryProfile(P, S, v, dx), Len(v) - 1), MaxPower - MinSeq(P, Len(v) - 1)>>

\* The pair battery_acc_constraint_func returns.
Margins(P, S, v, dx) ==
    <<MinSeq(BatteryProfile(P, S, v, dx), Len(v) - 1), MaxPower - MaxSeq(P, Len(v) - 1)>>

(***************************************************************************)
(* ProfileReporter: src/optim/profiles.py                                  *)
(***************************************************************************)

\* The list with the elapsed times left without their leading 0.
extract_profiles_unanchored(P, S, v, dx) ==
    LET n    == Len(v) - 1
        dt   == Dt(v, dx)
        energy_consumption == [k \in 1 .. n |-> MulDiv(P[k], dt[k].lo, 3600000)]
        energy_gain        == [k \in 1 .. n |-> MulDiv(S[k], dt[k].lo, 3600000)]
        net_energy_profile == [k \in 1 .. n |->
                                  Sum(energy_consumption, k) - Sum(energy_gain, k)]
        battery_profile    == <<state_InitialBatteryCapacity>>
                                \o [k \in 1 .. n |-> state_InitialBatteryCapacity - net_energy_profile[k]]
    IN  << <<0>> \o dx,
           v,
           <<"nan">> \o Acceleration(v, dx),
           [k \in 1 .. n + 1 |-> SMulDiv(battery_profile[k], 100, BatteryCapacity)],
           <<"nan">> \o energy_consumption,
           <<"nan">> \o energy_gain,
           [k \in 1 .. n |-> WSum(dt, k)] >>

\* The list extract_profiles returns, from the net power P and the solar
\* power S of the segments.  "nan" is np.nan.
extract_profiles(P, S, v, dx) ==
    LET n    == Len(v) - 1
        dt   == Dt(v, dx)
        energy_consumption == [k \in 1 .. n |-> MulDiv(P[k], dt[k].lo, 3600000)]
        energy_gain        == [k \in 1 .. n |-> MulDiv(S[k], dt[k].lo, 3600000)]
        net_energy_profile == [k \in 1 .. n |->
                                  Sum(energy_consumption, k) - Sum(energy_gain, k)]
        battery_profile    == <<state_InitialBatteryCapacity>>
                                \o [k \in 1 .. n |-> state_InitialBatteryCapacity - net_energy_profile[k]]
    IN  << <<0>> \o dx,
           v,
           <<"nan">> \o Acceleration(v, dx),
           [k \in 1 .. n + 1 |-> SMulDiv(battery_profile[k], 100, BatteryCapacity)],
           <<"nan">> \o energy_consumption,
           <<"nan">> \o energy_gain,
           <<WZero>> \o [k \in 1 .. n |-> WSum(dt, k)] >>

(***************************************************************************)
(* State                                                                   *)
(***************************************************************************)
VARIABLES
    dx, ds, dir,      \* the route: length, slope and heading of each segment
    ghi,              \* the irradiance column
    pc,               \* where the program is
    v,                \* the velocity profile in hand (the solver's point)
    evals,            \* constraint evaluations the solver has made
    fval,             \* the objective at v
    margins,          \* the constraint pair at v
    success,          \* the success flag of the solver's result
    caller,           \* who called calculate_power
    speed, acceleration, slope,   \* the arguments of calculate_power
    Tw_i,             \* the winding temperatures of its loop
    P_net,            \* the net power it returned
    report,           \* what run_optimise prints
    lkIn, lkOut       \* an environment lookup: the time asked, the answer

vars == <<state_InitialBatteryCapacity, dx, ds, dir, ghi, pc, v, evals, fval,
          margins, success, caller, speed, acceleration, slope, Tw_i, P_net,
          report, lkIn, lkOut>>

routeVars == <<state_InitialBatteryCapacity, dx, ds, dir, ghi>>
solverVars == <<v, evals, fval, margins, success, report>>
powerArgs == <<speed, acceleration, slope>>
lookupVars == <<lkIn, lkOut>>

\* The solver's evaluation budget.
MaxEvals == 2

\* The routes of the model: one, two and three segments; short and long;
\* flat and sloped.
Routes ==
    { [dx |-> <<1000>>,                ds |-> <<0>>,            dir |-> <<0>>],
      [dx |-> <<1000, 1000>>,          ds |-> <<0, 0>>,         dir |-> <<0, 15708>>],
      [dx |-> <<2000, 3000>>,          ds |-> <<500, -500>>,    dir |-> <<0, 0>>],
      [dx |-> <<1000, 100000, 1000>>,  ds |-> <<0, 0, 0>>,      dir |-> <<0, 0, 31416>>],
      [dx |-> <<500, 60000, 2000>>,    ds |-> <<0, 500, -500>>, dir |-> <<0, 0, 0>>] }

\* The waypoint speeds a solver may try, 0.01 m/s.
SpeedChoices == {0, 1, 1000, InitialGuessVelocity, MaxVelocity, 4000}

RECURSIVE SeqsOf(_, _)
\* The sequences of length n over S.
SeqsOf(S, n) ==
    IF n = 0 THEN {<<>>} ELSE {Append(q, x) : q \in SeqsOf(S, n - 1), x \in S}

InBounds(x, bounds) ==
    /\ Len(x) = Len(bounds)
    /\ \A i \in 1 .. Len(x) : bounds[i][1] <= x[i] /\ x[i] <= bounds[i][2]

None == <<>>

ConstVec(n, x) == [k \in 1 .. n |-> x]

(***************************************************************************)
(* calculate_power: src/optim/car.py                                       *)
(***************************************************************************)

\* Tw of every segment, from the temperatures Tw_i of the loop.
TwVec == [k \in 1 .. Len(Tw_i) |-> TwNext(Tw_i[k], speed[k], slope[k])]

\* np.all(cond)
AllCond == \A k \in 1 .. Len(Tw_i) : Cond(TwVec[k], Tw_i[k])

\* np.where(cond, Tw_i, Tw)
NextTw == [k \in 1 .. Len(Tw_i) |-> Where(TwVec[k], Tw_i[k])]

\* One pass of the while loop that does not break:
\* Tw_i = np.where(cond, Tw_i, Tw).
ThermalIter ==
    /\ pc = "thermal"
    /\ ~AllCond
    /\ Tw_i' = NextTw
    /\ UNCHANGED <<routeVars, solverVars, pc, caller, powerArgs, P_net, lookupVars>>

\* P_net.clip(0) after the break.
PNetVec == [k \in 1 .. Len(Tw_i) |-> NetPower(Tw_i[k], speed[k], acceleration[k], slope[k])]

\* The loop breaks and calculate_power returns to a caller that is neither
\* the constraint function nor the reporter.
PowerReturn ==
    /\ pc = "thermal"
    /\ caller = "direct"
    /\ AllCond
    /\ P_net' = PNetVec
    /\ pc' = "returned"
    /\ UNCHANGED <<routeVars, solverVars, caller, powerArgs, Tw_i, lookupVars>>

(***************************************************************************)
(* run_optimise: src/optim/main.py, with the solver it calls               *)
(***************************************************************************)

\* np.concatenate([[0], np.ones(N_V - 2) * InitialGuessVelocity, [0]])
InitialGuess(N_V) == <<0>> \o ConstVec(N_V - 2, InitialGuessVelocity) \o <<0>>

\* Lines 10-14: the initial guess; the solver is entered.
RunOptimise ==
    /\ pc = "start"
    /\ v' = InitialGuess(Len(dx) + 1)
    /\ pc' = "solver"
    /\ UNCHANGED <<routeVars, evals, fval, margins, success, report, caller,
                   powerArgs, Tw_i, P_net, lookupVars>>

\* battery_acc_constraint_func or extract_profiles, up to the loop of
\* calculate_power: an IndexError of get_wind_data ends the program.
EnterPower(x, who) ==
    IF LookupsOk(x, dx)
    THEN /\ pc' = "thermal"
         /\ caller' = who
         /\ speed' = AvgSpeed(x)
         /\ acceleration' = Acceleration(x, dx)
         /\ slope' = ds
         /\ Tw_i' = ConstVec(Len(x) - 1, Ta)
         /\ P_net' = None
    ELSE /\ pc' = "crashed"
         /\ UNCHANGED <<caller, powerArgs, Tw_i, P_net>>

\* The solver evaluates the objective and the constraint at a point inside
\* the bounds; the first point is the initial guess.
SolverEval ==
    /\ pc = "solver"
    /\ evals < MaxEvals
    /\ \E x \in SeqsOf(SpeedChoices, Len(dx) + 1) :
          /\ InBounds(x, get_bounds(Len(dx) + 1))
          /\ evals = 0 => x = v
          /\ v' = x
          /\ fval' = objective(x, dx)
          /\ EnterPower(x, "constraint")
    /\ UNCHANGED <<routeVars, evals, margins, success, report, lookupVars>>

\* Lines 29-35 of battery_acc_constraint_func: the loop has ended, the
\* margins go back to the solver.
ConstraintReturn ==
    /\ pc = "thermal"
    /\ caller = "constraint"
    /\ AllCond
    /\ P_net' = PNetVec
    /\ margins' = Margins(PNetVec, SolP(ghi, v, dx), v, dx)
    /\ evals' = evals + 1
    /\ pc' = "solver"
    /\ UNCHANGED <<routeVars, v, fval, success, report, caller, powerArgs, Tw_i,
                   lookupVars>>

Feasible(m) == m[1] >= 0 /\ m[2] >= 0

\* The solver returns its point: with success only at a feasible point,
\* without at any point (an infeasible one, or its budget spent).  Lines
\* 38-46 then take the point alone and enter extract_profiles.
SolverReturn ==
    /\ pc = "solver"
    /\ evals >= 1
    /\ \E ok \in BOOLEAN :
          /\ ok => Feasible(margins)
          /\ success' = ok
    /\ EnterPower(v, "report")
    /\ UNCHANGED <<routeVars, v, evals, fval, margins, report, lookupVars>>

\* Lines 40-46: what run_optimise prints once extract_profiles has its power.
ReportReturn ==
    /\ pc = "thermal"
    /\ caller = "report"
    /\ AllCond
    /\ P_net' = PNetVec
    /\ report' = [profile    |-> v,
                  time_taken |-> objective(v, dx),
                  profiles   |-> extract_profiles(PNetVec, SolP(ghi, v, dx), v, dx)]
    /\ pc' = "done"
    /\ UNCHANGED <<routeVars, v, evals, fval, margins, success, caller, powerArgs,
                   Tw_i, lookupVars>>

Init ==
    /\ \E r \in Routes : dx = r.dx /\ ds = r.ds /\ dir = r.dir
    /\ ghi \in {GhiClear, GhiDark}
    /\ pc = "start"
    /\ v = None
    /\ evals = 0
    /\ fval = WZero
    /\ margins = None
    /\ success = FALSE
    /\ caller = "none"
    /\ speed = None /\ acceleration = None /\ slope = None
    /\ Tw_i = None
    /\ P_net = None
    /\ report = None
    /\ lkIn = 0 /\ lkOut = None
    /\ state_InitialBatteryCapacity = InitialBatteryCapacity

Next ==
    \/ RunOptimise
    \/ SolverEval
    \/ ThermalIter
    \/ ConstraintReturn
    \/ SolverReturn
    \/ ReportReturn

Spec == Init /\ [][Next]_vars

\* run_optimise with the initial charge configured at the safety floor,
\* state.InitialBatteryCapacity = BatteryCapacity * DeepDischargeCap.
InitFloor ==
    /\ \E r \in Routes : dx = r.dx /\ ds = r.ds /\ dir = r.dir
    /\ ghi \in {GhiClear, GhiDark}
    /\ pc = "start"
    /\ v = None
    /\ evals = 0
    /\ fval = WZero
    /\ margins = None
    /\ success = FALSE
    /\ caller = "none"
    /\ speed = None /\ acceleration = None /\ slope = None
    /\ Tw_i = None
    /\ P_net = None
    /\ report = None
    /\ lkIn = 0 /\ lkOut = None
    /\ state_InitialBatteryCapacity = SafeBatteryLevel

SpecFloor == InitFloor /\ [][Next]_vars

(***************************************************************************)
(* calculate_power called on its own, over drawn arguments                 *)
(***************************************************************************)

\* Segment speeds (0.005 m/s): at rest, the initial guess, the speed limit,
\* and 100 m/s, which the bounds of the solver exclude but the function
\* accepts.
PowerSpeeds == {0, 2 * InitialGuessVelocity, 2 * MaxVelocity, 20000}

\* Accelerations, 10^-6 m/s^2.
PowerAccs == {-2000000, 0, 100000}

InitPower ==
    /\ dx = <<1000, 1000>> /\ ds = <<0, 0>> /\ dir = <<0, 0>>
    /\ ghi = GhiClear
    /\ pc = "thermal"
    /\ v = None
    /\ evals = 0
    /\ fval = WZero
    /\ margins = None
    /\ success = FALSE
    /\ caller = "direct"
    /\ speed \in SeqsOf(PowerSpeeds, 2)
    /\ acceleration \in SeqsOf(PowerAccs, 2)
    /\ slope \in SeqsOf(Slopes, 2)
    /\ Tw_i = ConstVec(2, Ta)
    /\ P_net = None
    /\ report = None
    /\ lkIn = 0 /\ lkOut = None
    /\ state_InitialBatteryCapacity = InitialBatteryCapacity

NextPower ==
    \/ ThermalIter
    \/ PowerReturn

SpecPower == InitPower /\ [][NextPower]_vars

(***************************************************************************)
(* The lookups of src/optim/weather.py called on their own                 *)
(***************************************************************************)

\* Times asked, ms from the run's start: from 70 minutes before it to 150
\* minutes after it, every 75 s.
LookupTimes == {75000 * j - 4200000 : j \in 0 .. 176}

InitEnv ==
    /\ dx = <<1000>> /\ ds = <<0>> /\ dir = <<0>>
    /\ ghi \in {GhiClear, GhiDark}
    /\ pc = "env"
    /\ v = None
    /\ evals = 0
    /\ fval = WZero
    /\ margins = None
    /\ success = FALSE
    /\ caller = "none"
    /\ speed = None /\ acceleration = None /\ slope = None
    /\ Tw_i = None
    /\ P_net = None
    /\ report = None
    /\ lkIn = 0 /\ lkOut = None
    /\ state_InitialBatteryCapacity = InitialBatteryCapacity

\* get_solar_power and get_wind_data at one time; an IndexError is the
\* answer's ok = FALSE.
EnvLookup ==
    /\ pc = "env"
    /\ \E m \in LookupTimes :
          /\ lkIn' = m
          /\ lkOut' = [solar |-> get_solar_power(ghi, m), wind |-> get_wind_data(m)]
    /\ UNCHANGED <<routeVars, solverVars, pc, caller, powerArgs, Tw_i, P_net>>

NextEnv == EnvLookup

SpecEnv == InitEnv /\ [][NextEnv]_vars

(***************************************************************************)
(* Properties                                                              *)
(***************************************************************************)

\* The least and the largest member of a finite set of integers.
Least(S) == CHOOSE m \in S : \A x \in S : m <= x
Largest(S) == CHOOSE m \in S : \A x \in S : x <= m

\* C1: every element of the net power calculate_power returns is >= 0, and
\* is the sum output + windage + copper + eddy + acceleration power where
\* that sum is positive and 0 where it is not; a segment at rest with no
\* acceleration included.
C1_NetPowerFlooredAtZero ==
    pc = "returned" =>
        \A k \in 1 .. Len(P_net) :
            LET sum == OutputPower(speed[k], slope[k]) + WindageLoss(speed[k])
                         + CopperLoss(Tw_i[k], Tou(speed[k], slope[k]))
                         + EddyLoss(Tw_i[k], speed[k])
                         + AccPower(speed[k], acceleration[k], slope[k])
            IN  /\ P_net[k] >= 0
                /\ sum >= 0 => P_net[k] = sum
                /\ sum < 0 => P_net[k] = 0

\* calculate_power has returned for a segment at rest with no acceleration
\* (its net power the copper loss of the rolling torque) beside a braking
\* segment whose sum is negative.
C1_Witness ==
    /\ pc = "returned"
    /\ \E k \in 1 .. Len(P_net) : speed[k] = 0 /\ acceleration[k] = 0 /\ P_net[k] >= 0
    /\ \E k \in 1 .. Len(P_net) :
          speed[k] > 0 /\ NetSum(Tw_i[k], speed[k], acceleration[k], slope[k]) < 0

\* C2: the profile in hand, the initial guess and every point the solver
\* takes inside the bounds, has one entry per waypoint, its first and last
\* entries 0 and every interior entry in [0.01 m/s, MaxVelocity].
C2_ProfileAtRestAtBothEnds ==
    v # None =>
        /\ Len(v) = Len(dx) + 1
        /\ Len(v) >= 2
        /\ v[1] = 0
        /\ v[Len(v)] = 0
        /\ \A i \in 2 .. Len(v) - 1 : 1 <= v[i] /\ v[i] <= MaxVelocity

\* The solver has moved off the initial guess on a route of four waypoints.
C2_Witness ==
    /\ pc = "solver"
    /\ evals = MaxEvals
    /\ Len(v) = 4
    /\ v # InitialGuess(4)
    /\ v[2] # v[3]

\* Battery energy drawn by the end of segment k, mWh.
DrawnBy(k) ==
    LET S == SolP(ghi, v, dx)
        e == [j \in 1 .. k |-> SMulDiv(P_net[j] - S[j], Dt(v, dx)[j].lo, 10^5)]
    IN  SDiv(Sum(e, k), 36)

\* C3: the battery margin is the minimum over segments k of initial charge -
\* safety reserve - energy drawn by the end of segment k; it is >= 0 exactly
\* when the battery level is at or above the safety floor at the end of
\* every segment.
C3_BatteryMarginIsLeastHeadroom ==
    (pc = "solver" /\ evals >= 1) =>
        /\ margins[1] = Least({state_InitialBatteryCapacity - SafeBatteryLevel - DrawnBy(k) :
                                  k \in 1 .. Len(dx)})
        /\ margins[1] >= 0 <=>
              \A k \in 1 .. Len(dx) : state_InitialBatteryCapacity - DrawnBy(k) >= SafeBatteryLevel

\* A margin below 0 whose minimum is taken before the last segment, the
\* sun recharging the battery on the last one.
C3_Witness ==
    /\ pc = "solver" /\ evals >= 1
    /\ Len(dx) = 3
    /\ margins[1] < 0
    /\ DrawnBy(2) > DrawnBy(3)
    /\ DrawnBy(1) < DrawnBy(2)

\* C4: the power margin is MaxCurrent * BusVoltage less the largest net power
\* of a segment; it is >= 0 exactly when no segment's net power is above
\* that cap.
C4_PowerMarginIsCapLessPeak ==
    (pc = "solver" /\ evals >= 1) =>
        /\ margins[2] = MaxCurrent * BusVoltage * 10
                          - Largest({P_net[k] : k \in 1 .. Len(dx)})
        /\ margins[2] >= 0 <=>
              \A k \in 1 .. Len(dx) : P_net[k] <= MaxCurrent * BusVoltage * 10

\* Margins of both signs over segments of different net power.
C4_Witness ==
    /\ pc = "solver" /\ evals >= 1
    /\ margins[2] >= 0
    /\ \E j, k \in 1 .. Len(dx) : P_net[j] < P_net[k] /\ P_net[j] > 0

C4_WitnessOverCap ==
    /\ pc = "solver" /\ evals >= 1
    /\ margins[2] < 0

\* Minutes on the clock of the series, in ms: the elapsed time plus the
\* offset StartTime / 60 - 480.
SeriesMs(m) == m + ((StartTime \div 60) - 480) * 60000

\* Whether b is the bucket of the elapsed time m: the sample at 5 b minutes
\* is the last one not after m.
IsBucketOf(b, m) == 5 * 60000 * b <= SeriesMs(m) /\ SeriesMs(m) < 5 * 60000 * (b + 1)

\* C5: for an elapsed time whose bucket floor((m + offset) / step) is a row
\* of the series, get_solar_power and get_wind_data both answer with the
\* sample of that one bucket, the nearest past sample, unaltered (the
\* irradiance times the panel factor): the same for every m of the bucket
\* and never a value between two samples.
C5_LookupReadsNearestPastBucket ==
    lkOut # None =>
        \A b \in 0 .. SeriesLen - 1 :
            IsBucketOf(b, lkIn) =>
                /\ lkOut.solar.ok /\ lkOut.wind.ok
                /\ lkOut.solar.val = ghi[b] * PanelArea * PanelEfficiency
                /\ lkOut.wind.ws = _wind_speed[b]
                /\ lkOut.wind.wd = _wind_direction[b]

\* A lookup late in a bucket of the rising irradiance, more than half way
\* to the next sample.
C5_Witness ==
    /\ lkOut # None
    /\ ghi = GhiClear
    /\ \E b \in 1 .. SeriesLen - 2 :
          /\ IsBucketOf(b, lkIn)
          /\ SeriesMs(lkIn) > 5 * 60000 * b + 150000
          /\ lkOut.solar.val = GhiClear[b] * NET_PANEL_FACTOR
          /\ lkOut.solar.val # GhiClear[b + 1] * NET_PANEL_FACTOR

\* C6: a lookup whose bucket is below 0 or at or beyond the length of the
\* series fails, returning no value of the series.
C6_OutOfRangeLookupFails ==
    (lkOut # None /\ ~(\E b \in 0 .. SeriesLen - 1 : IsBucketOf(b, lkIn))) =>
        ~lkOut.solar.ok /\ ~lkOut.wind.ok

\* What the code does: a bucket at or beyond the length fails, a bucket b
\* with -length <= b < 0 answers with row length + b.
C6_NegativeBucketWraps ==
    lkOut # None =>
        /\ SeriesMs(lkIn) >= 5 * 60000 * SeriesLen => ~lkOut.solar.ok /\ ~lkOut.wind.ok
        /\ \A b \in 1 .. SeriesLen :
              IsBucketOf(-b, lkIn) =>
                  /\ lkOut.solar.ok /\ lkOut.wind.ok
                  /\ lkOut.solar.val = ghi[SeriesLen - b] * NET_PANEL_FACTOR
                  /\ lkOut.wind.wd = _wind_direction[SeriesLen - b]

\* A lookup 65 minutes before the start answers with the last row.
C6_WitnessWrap ==
    /\ lkOut # None
    /\ IsBucketOf(-1, lkIn)
    /\ ghi = GhiClear
    /\ lkOut.solar.ok
    /\ lkOut.solar.val = GhiClear[SeriesLen - 1] * NET_PANEL_FACTOR

\* C7: the winding-temperature iteration of calculate_power always ends, by
\* returning power or by failing at an iteration cap.  So it is never in a
\* pass that neither returns nor changes a temperature: the loop has no
\* other state, and repeats such a pass for ever.
C7_IterationAlwaysEnds ==
    pc = "thermal" => (AllCond \/ NextTw # Tw_i)

\* C8: when the solver ended without success, what run_optimise reports
\* carries the solver's success flag and the margins of the point.
C8_ReportShowsNonConvergence ==
    (pc = "done" /\ ~success) =>
        "success" \in DOMAIN report /\ "margins" \in DOMAIN report

\* The time of segment k in the objective of the profile x, ms:
\* 2 * length / (x_k + x_k+1 + EPSILON).
SegTime(x, k) == TimeOver(dx[k], x[k] + x[k + 1], 1)

RECURSIVE TotalFrom(_, _)
\* The sum of the times of the segments k, k + 1, ... of the profile x.
TotalFrom(x, k) ==
    IF k > Len(dx) THEN WZero ELSE WAdd(SegTime(x, k), TotalFrom(x, k + 1))

\* The longest time a route of the model can take, in units of 10^9 ms: every
\* segment at 0 + EPSILON.
LongestHi == 200 * Sum(dx, Len(dx))

\* C9: at a profile of zero ends and positive interior speeds the objective
\* is a finite time, the sum over the segments of
\* 2 * length / (v_i + v_i+1 + EPSILON), and a profile with one interior
\* speed higher and the others the same has a strictly lower objective.
C9_ObjectiveIsSumAndDecreasing ==
    (pc \in {"thermal", "solver"} /\ evals + (IF pc = "thermal" THEN 1 ELSE 0) >= 1
        /\ caller = "constraint") =>
        /\ fval.hi >= 0 /\ fval.hi <= LongestHi
        /\ fval.lo >= 0 /\ fval.lo < WBase
        /\ fval = TotalFrom(v, 1)
        /\ \A i \in 2 .. Len(v) - 1 :
              \A s \in SpeedChoices :
                  s > v[i] => /\ WLess(objective([v EXCEPT ![i] = s], dx), fval)
                              /\ WLess(TotalFrom([v EXCEPT ![i] = s], 1), TotalFrom(v, 1))

\* The objective of a profile of four waypoints with unlike interior speeds
\* below the limit.
C9_Witness ==
    /\ pc = "solver" /\ evals >= 1
    /\ Len(v) = 4
    /\ v[2] < v[3]
    /\ v[3] < MaxVelocity
    /\ fval.hi = 0 /\ fval.lo > 0

\* C10: the list extract_profiles returns has seven sequences of N entries
\* each; entry 0 is the starting waypoint (distance 0, elapsed time 0, the
\* initial charge as a percentage of the nominal capacity, nan for
\* acceleration, consumption and gain), entry k >= 1 is the value of segment
\* k - 1.
C10_SevenAlignedSequences ==
    pc = "done" =>
        LET r == report.profiles
            N == Len(dx) + 1
            S == SolP(ghi, v, dx)
            dt == Dt(v, dx)
            used(k) == Sum([j \in 1 .. k |-> MulDiv(P_net[j], dt[j].lo, 3600000)], k)
            won(k) == Sum([j \in 1 .. k |-> MulDiv(S[j], dt[j].lo, 3600000)], k)
        IN  /\ Len(r) = 7
            /\ \A q \in 1 .. 7 : Len(r[q]) = N
            /\ r[1][1] = 0
            /\ r[2][1] = v[1]
            /\ r[3][1] = "nan"
            /\ r[4][1] = (state_InitialBatteryCapacity * 100) \div BatteryCapacity
            /\ r[5][1] = "nan"
            /\ r[6][1] = "nan"
            /\ r[7][1] = WZero
            /\ \A k \in 1 .. N - 1 :
                  /\ r[1][k + 1] = dx[k]
                  /\ r[2][k + 1] = v[k + 1]
                  /\ r[3][k + 1] = Acceleration(v, dx)[k]
                  /\ r[4][k + 1] = SMulDiv(state_InitialBatteryCapacity - (used(k) - won(k)),
                                           100, BatteryCapacity)
                  /\ r[5][k + 1] = MulDiv(P_net[k], dt[k].lo, 3600000)
                  /\ r[6][k + 1] = MulDiv(S[k], dt[k].lo, 3600000)
                  /\ r[7][k + 1] = WSum(dt, k)

\* The report of a run over three segments in sunshine, the battery lower
\* at the end than at the start.
C10_Witness ==
    /\ pc = "done"
    /\ Len(dx) = 3
    /\ ghi = GhiClear
    /\ report.profiles[6][2] > 0
    /\ report.profiles[4][4] < report.profiles[4][1]

\* The profiles the driver admits on the route: those inside get_bounds.
Admitted == {x \in SeqsOf(SpeedChoices, Len(dx) + 1) : InBounds(x, get_bounds(Len(dx) + 1))}

\* The smallest objective over the admitted profiles.
BestObjective ==
    LET vals == {objective(x, dx) : x \in Admitted}
    IN  CHOOSE t \in vals : \A u \in vals : ~WLess(u, t)

\* The time of 1000 m at MaxVelocity, ms.
MaxSpeedTime == (1000 * 100000) \div MaxVelocity

\* C11: on a route of one flat segment of 1000 m without irradiance, the
\* smallest objective over the admitted profiles is near the time of the
\* segment at MaxVelocity (here: within twice that time).
C11_SingleSegmentNearMaxSpeedTime ==
    (v # None /\ dx = <<1000>> /\ ds = <<0>> /\ ghi = GhiDark) =>
        /\ BestObjective.hi = 0
        /\ BestObjective.lo <= 2 * MaxSpeedTime

\* What the code does on that route: both waypoints are ends, the only
\* admitted profile is at rest at both, and its objective is
\* 2 * 1000 / EPSILON s.
C11_OnlyProfileIsAtRest ==
    (v # None /\ dx = <<1000>>) =>
        /\ Admitted = {<<0, 0>>}
        /\ v = <<0, 0>>
        /\ BestObjective = [hi |-> 200000, lo |-> 0]

\* The initial charge is at the safety floor and the constraint function
\* has returned the margins of the profile in hand.
AtFloorEvaluated ==
    /\ state_InitialBatteryCapacity = (BatteryCapacity * 1000 * DeepDischargeCap) \div 10
    /\ pc = "solver" /\ evals >= 1

\* C12 as the specification words it: with the initial charge at the safety
\* floor, a profile whose net consumption (consumption less solar gain over
\* the route) is not zero has a battery margin below 0.
C12_NonzeroNetConsumptionInfeasible ==
    (AtFloorEvaluated /\ DrawnBy(Len(dx)) # 0) => margins[1] < 0

\* C12, with the sign said: with the initial charge at the safety floor, the
\* battery margin is below 0 exactly when the net consumption is above 0 by
\* the end of some segment; a profile that gains at least what it consumes
\* by the end of every segment has a margin >= 0, the least net gain.
C12_PositiveNetConsumptionInfeasible ==
    AtFloorEvaluated =>
        /\ (\E k \in 1 .. Len(dx) : DrawnBy(k) > 0) <=> margins[1] < 0
        /\ margins[1] = - Largest({DrawnBy(k) : k \in 1 .. Len(dx)})
        /\ DrawnBy(Len(dx)) > 0 => margins[1] < 0

\* A profile that draws from the battery, rejected.
C12_Witness ==
    /\ AtFloorEvaluated
    /\ DrawnBy(Len(dx)) > 0
    /\ margins[1] < 0

\* A slow profile in sunshine: the panels give more than the motor takes on
\* every segment, and the margin is above 0.
C12_WitnessNetGain ==
    /\ AtFloorEvaluated
    /\ \A k \in 1 .. Len(dx) : DrawnBy(k) < 0
    /\ \E k \in 1 .. Len(dx) : P_net[k] > 0
    /\ margins[1] > 0

\* The passes a segment run alone is given in the comparison below.
MaxPasses == 12

RECURSIVE Alone(_, _, _, _)
\* The loop of calculate_power on one segment alone, from the temperature T
\* with n passes left: the temperature it breaks at, the passes it used.
Alone(T, h, sl, n) ==
    LET Tw == CHOOSE t \in {TwNext(T, h, sl)} : TRUE
    IN  IF Cond(Tw, T) THEN [ok |-> TRUE, T |-> T, left |-> n]
        ELSE IF n = 0 THEN [ok |-> FALSE, T |-> T, left |-> 0]
        ELSE CHOOSE r \in {Alone(Tw, h, sl, n - 1)} : TRUE

\* C13: in the loop, a segment whose condition |Tw - Tw_i| < 0.001 holds
\* keeps its temperature in every later pass and its condition keeps
\* holding; the loop is left only when the condition holds for all
\* segments; and the temperature and the power of every segment at the
\* return are those of the same iteration run on that segment alone.
C13_MaskKeepsConvergedSegments ==
    /\ [][pc = "thermal" =>
            \A k \in 1 .. Len(Tw_i) :
                Cond(TwVec[k], Tw_i[k]) =>
                    /\ Tw_i'[k] = Tw_i[k]
                    /\ Cond(TwNext(Tw_i'[k], speed'[k], slope'[k]), Tw_i'[k])]_vars
    /\ [][(pc = "thermal" /\ pc' # "thermal") => AllCond]_vars
    /\ [](pc = "returned" =>
            \A k \in 1 .. Len(Tw_i) :
                LET a == Alone(Ta, speed[k], slope[k], MaxPasses)
                IN  /\ a.ok
                    /\ Tw_i[k] = a.T
                    /\ P_net[k] = Clip0(OutputPower(speed[k], slope[k])
                                          + WindageLoss(speed[k])
                                          + CopperLoss(a.T, Tou(speed[k], slope[k]))
                                          + EddyLoss(a.T, speed[k])
                                          + AccPower(speed[k], acceleration[k], slope[k])))

\* calculate_power has returned for two segments of which the first, at
\* rest, met its condition at least three passes before the second.
C13_Witness ==
    /\ pc = "returned"
    /\ speed[1] = 0 /\ speed[2] = 2 * MaxVelocity
    /\ Alone(Ta, speed[1], slope[1], MaxPasses).left
          >= Alone(Ta, speed[2], slope[2], MaxPasses).left + 3
    /\ Tw_i[1] < Tw_i[2]

\* The objective of the profile in hand has been computed.
ObjectiveEvaluated == pc # "start" /\ ~(pc = "solver" /\ evals = 0)

\* C14: the total time objective computes for a profile, one with two
\* adjacent speeds 0 included, is the last entry of the cumulative elapsed
\* time of the per-segment times dt; and the time run_optimise reports is
\* the last elapsed time of the telemetry.
C14_ObjectiveIsLastElapsedTime ==
    /\ ObjectiveEvaluated => fval = WSum(Dt(v, dx), Len(dx))
    /\ pc = "done" => report.time_taken = report.profiles[7][Len(dx) + 1]

\* What the code does for two adjacent speeds 0: the objective's time of
\* the segment is 2 * length / EPSILON, its dt is length / EPSILON (the
\* objective adds EPSILON to the sum of the two speeds, dt to their mean).
C14_AtRestObjectiveIsTwiceDt ==
    (ObjectiveEvaluated /\ v = <<0, 0>>) =>
        /\ fval = [hi |-> 200 * dx[1], lo |-> 0]
        /\ WSum(Dt(v, dx), 1) = [hi |-> 100 * dx[1], lo |-> 0]

====
